---- MODULE Spec2Model ----
(***************************************************************************)
(* Model of the Synth Control Plane viewer (src/synth): the session-token  *)
(* decoder parseSessionToken, the connection-parameter functions           *)
(* getSignalingProxy and getIceServers, and the SynthViewer component that *)
(* feeds them to the external streaming client.                            *)
(*                                                                         *)
(* Strings are sequences of code units (integers), so that slicing,        *)
(* lastIndexOf, base64 and JSON are computed and not assumed.              *)
(***************************************************************************)
EXTENDS Integers, Sequences, FiniteSets, TLC

VARIABLES
    path,        \* window.location.pathname
    now,         \* Math.floor(Date.now() / 1000)
    result,      \* the TokenParseResult of the latest parseSessionToken()
    resultAt,    \* the clock second of that invocation
    prev,        \* the TokenParseResult of an earlier invocation
    prevAt,      \* the clock second of that earlier invocation
    config,      \* SynthViewer.config / the SynthConfig argument
    token,       \* the SessionToken argument of getSignalingProxy
    proxy,       \* the value returned by getSignalingProxy
    ice,         \* the value returned by getIceServers
    impl,        \* which of the two SynthViewer sources is built
    pc,          \* position of the component in its lifecycle
    state,       \* SynthViewer.state: status, error, session
    calls,       \* the streamConfig of every AppStreamer.connect call
    promise,     \* the promise returned by AppStreamer.connect
    lastEvent    \* the latest callback of the streaming client, or the promise settling

vars == <<path, now, result, resultAt, prev, prevAt, config, token, proxy, ice,
          impl, pc, state, calls, promise, lastEvent>>

----------------------------------------------------------------------------
(* Characters *)

AsciiTable ==
    <<" ", "!", "\"", "#", "$", "%", "&", "'", "(", ")", "*", "+", ",", "-",
      ".", "/", "0", "1", "2", "3", "4", "5", "6", "7", "8", "9", ":", ";",
      "<", "=", ">", "?", "@", "A", "B", "C", "D", "E", "F", "G", "H", "I",
      "J", "K", "L", "M", "N", "O", "P", "Q", "R", "S", "T", "U", "V", "W",
      "X", "Y", "Z", "[", "\\", "]", "^", "_", "backtick", "a", "b", "c", "d", "e",
      "f", "g", "h", "i", "j", "k", "l", "m", "n", "o", "p", "q", "r", "s",
      "t", "u", "v", "w", "x", "y", "z", "{", "|", "}", "~">>

\* the code unit of a printable ASCII character (32..126, in table order)
Ord(c) == 31 + (CHOOSE i \in 1..Len(AsciiTable) : AsciiTable[i] = c)

\* a string literal, written as a tuple of characters
Str(t) == [i \in 1..Len(t) |-> Ord(t[i])]

\* the characters the code names
ChQuote == Ord("\"")
ChBackslash == Ord("\\")
ChSlash == Ord("/")
ChDot == Ord(".")
ChMinus == Ord("-")
ChUnderscore == Ord("_")
ChPlus == Ord("+")
ChEquals == Ord("=")
ChLBrace == Ord("{")
ChRBrace == Ord("}")
ChColon == Ord(":")
ChComma == Ord(",")
ChZero == Ord("0")
ChLowerE == Ord("e")
ChUpperE == Ord("E")

Slice(s, from, to) == [i \in 1..(IF to >= from THEN to - from + 1 ELSE 0) |-> s[from + i - 1]]

\* String.prototype.lastIndexOf for a single character, 0-based, -1 if absent
LastIndexOf(s, c) ==
    IF \E i \in 1..Len(s) : s[i] = c
    THEN (CHOOSE i \in 1..Len(s) : s[i] = c /\ \A j \in (i+1)..Len(s) : s[j] # c) - 1
    ELSE -1

\* String.prototype.replace(/x/g, y) for single characters
ReplaceAll(s, x, y) == [i \in 1..Len(s) |-> IF s[i] = x THEN y ELSE s[i]]

\* String.prototype.repeat for a single character
Repeat(c, n) == [i \in 1..n |-> c]

----------------------------------------------------------------------------
(* base64 *)

B64Chars ==
    Str(<<"A", "B", "C", "D", "E", "F", "G", "H", "I", "J", "K", "L", "M",
          "N", "O", "P", "Q", "R", "S", "T", "U", "V", "W", "X", "Y", "Z",
          "a", "b", "c", "d", "e", "f", "g", "h", "i", "j", "k", "l", "m",
          "n", "o", "p", "q", "r", "s", "t", "u", "v", "w", "x", "y", "z",
          "0", "1", "2", "3", "4", "5", "6", "7", "8", "9", "+", "/">>)

IsB64(c) ==
    \/ c >= B64Chars[1] /\ c <= B64Chars[26]
    \/ c >= B64Chars[27] /\ c <= B64Chars[52]
    \/ c >= B64Chars[53] /\ c <= B64Chars[62]
    \/ c = ChPlus
    \/ c = ChSlash
\* the sextet of a base64 character: its 0-based position in B64Chars
B64Val(c) ==
    CASE c >= B64Chars[1] /\ c <= B64Chars[26] -> c - B64Chars[1]
      [] c >= B64Chars[27] /\ c <= B64Chars[52] -> c - B64Chars[27] + 26
      [] c >= B64Chars[53] /\ c <= B64Chars[62] -> c - B64Chars[53] + 52
      [] c = ChPlus -> 62
      [] OTHER -> 63

AsciiWs == {9, 10, 12, 13, 32}

StripWs(s) == SelectSeq(s, LAMBDA c : c \notin AsciiWs)

\* the bytes of a run of sextets: byte k takes its 8 bits from the group of
\* four sextets it falls in; bits left over at the end are discarded
B64Bytes(d) ==
    LET count == 3 * (Len(d) \div 4) + (IF Len(d) % 4 = 0 THEN 0 ELSE (Len(d) % 4) - 1)
        v(i) == B64Val(d[i])
    IN [k \in 1..count |->
          LET g == 4 * ((k - 1) \div 3) IN
          CASE (k - 1) % 3 = 0 -> v(g + 1) * 4 + (v(g + 2) \div 16)
            [] (k - 1) % 3 = 1 -> (v(g + 2) % 16) * 16 + (v(g + 3) \div 4)
            [] OTHER -> (v(g + 3) % 4) * 64 + v(g + 4)]

\* window.atob (forgiving-base64 decode): ok = FALSE when it throws; each
\* decoded byte becomes one code unit of the returned string
atob(data) ==
    LET a == StripWs(data)
        eq == ChEquals
        b == IF Len(a) % 4 = 0 /\ Len(a) >= 1 /\ a[Len(a)] = eq
             THEN IF Len(a) >= 2 /\ a[Len(a) - 1] = eq
                  THEN Slice(a, 1, Len(a) - 2)
                  ELSE Slice(a, 1, Len(a) - 1)
             ELSE a
    IN IF Len(b) % 4 = 1 \/ \E i \in 1..Len(b) : ~IsB64(b[i])
       THEN [ok |-> FALSE, s |-> <<>>]
       ELSE [ok |-> TRUE, s |-> B64Bytes(b)]

base64UrlDecode(str) ==
    LET base64 == ReplaceAll(ReplaceAll(str, ChMinus, ChPlus), ChUnderscore, ChSlash)
        padding == Len(base64) % 4
    IN atob(IF padding # 0 THEN base64 \o Repeat(ChEquals, 4 - padding) ELSE base64)

----------------------------------------------------------------------------
(* JavaScript values.  Every value is a record of the same shape, so that   *)
(* any two values can be compared; t is the type tag.                       *)

Undefined == [t |-> "undefined", b |-> FALSE, n |-> 0, s |-> <<>>, o |-> <<>>]
Null == [t |-> "null", b |-> FALSE, n |-> 0, s |-> <<>>, o |-> <<>>]
Bool(x) == [t |-> "boolean", b |-> x, n |-> 0, s |-> <<>>, o |-> <<>>]
Num(x) == [t |-> "number", b |-> FALSE, n |-> x, s |-> <<>>, o |-> <<>>]
String(x) == [t |-> "string", b |-> FALSE, n |-> 0, s |-> x, o |-> <<>>]
\* an object: its own properties in insertion order, each [k |-> name, v |-> value]
Obj(members) == [t |-> "object", b |-> FALSE, n |-> 0, s |-> <<>>, o |-> members]

\* ToBoolean
Truthy(v) ==
    CASE v.t = "undefined" -> FALSE
      [] v.t = "null" -> FALSE
      [] v.t = "boolean" -> v.b
      [] v.t = "number" -> v.n # 0
      [] v.t = "string" -> v.s # <<>>
      [] OTHER -> TRUE

\* the property read v.k; reading a property of null or undefined throws
CanRead(v) == v.t \notin {"undefined", "null"}
Get(v, k) ==
    IF v.t = "object" /\ \E i \in 1..Len(v.o) : v.o[i].k = k
    THEN v.o[CHOOSE i \in 1..Len(v.o) : v.o[i].k = k /\ \A j \in (i+1)..Len(v.o) : v.o[j].k # k].v
    ELSE Undefined

\* the relational comparison a > v for a number a: v is converted by ToNumber,
\* and a comparison with NaN (undefined, a non-numeric string, an object) is false
GreaterThan(a, v) ==
    CASE v.t = "number" -> a > v.n
      [] v.t = "boolean" -> a > (IF v.b THEN 1 ELSE 0)
      [] v.t = "null" -> a > 0
      [] OTHER -> FALSE

----------------------------------------------------------------------------
(* JSON *)

Digits == Str(<<"0", "1", "2", "3", "4", "5", "6", "7", "8", "9">>)
IsDigit(c) == c >= ChZero /\ c <= ChZero + 9
DigitVal(c) == c - ChZero

RECURSIVE NatToString(_)
NatToString(n) ==
    IF n < 10 THEN <<Digits[n + 1]>>
    ELSE NatToString(n \div 10) \o <<Digits[(n % 10) + 1]>>

IntToString(n) == IF n < 0 THEN <<ChMinus>> \o NatToString(-n) ELSE NatToString(n)

\* JSON.stringify of a string: quoted, with the quote and the backslash escaped
RECURSIVE QuoteBody(_)
QuoteBody(s) ==
    IF s = <<>> THEN <<>>
    ELSE (IF Head(s) \in {ChQuote, ChBackslash} THEN <<ChBackslash, Head(s)>> ELSE <<Head(s)>>)
         \o QuoteBody(Tail(s))

Quote(s) == <<ChQuote>> \o QuoteBody(s) \o <<ChQuote>>

TextNull == Str(<<"n", "u", "l", "l">>)
TextTrue == Str(<<"t", "r", "u", "e">>)
TextFalse == Str(<<"f", "a", "l", "s", "e">>)

RECURSIVE StringifyMembers(_)
\* JSON.stringify for objects whose members are strings, integers, booleans or null
JSONstringify(v) ==
    CASE v.t = "null" -> TextNull
      [] v.t = "boolean" -> IF v.b THEN TextTrue ELSE TextFalse
      [] v.t = "number" -> IntToString(v.n)
      [] v.t = "string" -> Quote(v.s)
      [] OTHER -> <<ChLBrace>> \o StringifyMembers(v.o) \o <<ChRBrace>>

StringifyMembers(ms) ==
    IF ms = <<>> THEN <<>>
    ELSE Quote(ms[1].k) \o <<ChColon>> \o JSONstringify(ms[1].v)
         \o (IF Len(ms) > 1 THEN <<ChComma>> ELSE <<>>) \o StringifyMembers(Tail(ms))

\* the code unit at 1-based position i, -1 past the end
At(s, i) == IF i >= 1 /\ i <= Len(s) THEN s[i] ELSE -1

JsonWs == {9, 10, 13, 32}

RECURSIVE SkipWs(_, _)
SkipWs(s, i) == IF At(s, i) \in JsonWs THEN SkipWs(s, i + 1) ELSE i

\* a parse step: ok = FALSE is a SyntaxError, p is the next unread position
Fail == [ok |-> FALSE, v |-> Undefined, p |-> 0]
Done(v, p) == [ok |-> TRUE, v |-> v, p |-> p]

HasPrefix(s, i, w) == i + Len(w) - 1 <= Len(s) /\ Slice(s, i, i + Len(w) - 1) = w

\* the characters of a string literal after its opening quote
RECURSIVE ParseStringBody(_, _, _)
ParseStringBody(s, i, acc) ==
    LET c == At(s, i) IN
    IF c < 32 THEN Fail
    ELSE IF c = ChQuote THEN Done(String(acc), i + 1)
    ELSE IF c = ChBackslash
         THEN IF At(s, i + 1) \in {ChQuote, ChBackslash, ChSlash}
              THEN ParseStringBody(s, i + 2, Append(acc, At(s, i + 1)))
              ELSE Fail
    ELSE ParseStringBody(s, i + 1, Append(acc, c))

RECURSIVE ParseDigits(_, _, _)
ParseDigits(s, i, acc) ==
    IF IsDigit(At(s, i)) THEN ParseDigits(s, i + 1, acc * 10 + DigitVal(At(s, i)))
    ELSE [n |-> acc, p |-> i]

\* an integer literal: -? (0 | [1-9][0-9]*)
ParseNumber(s, i) ==
    LET neg == At(s, i) = ChMinus
        j == IF neg THEN i + 1 ELSE i
        d == ParseDigits(s, j, 0)
    IN IF ~IsDigit(At(s, j)) THEN Fail
       ELSE IF At(s, j) = ChZero /\ d.p > j + 1 THEN Fail
       ELSE IF At(s, d.p) \in {ChDot, ChLowerE, ChUpperE} THEN Fail
       ELSE Done(Num(IF neg THEN 0 - d.n ELSE d.n), d.p)

RECURSIVE ParseValue(_, _)
RECURSIVE ParseMembers(_, _, _)

ParseValue(s, i) ==
    LET c == At(s, i) IN
    IF c = ChLBrace
    THEN IF At(s, SkipWs(s, i + 1)) = ChRBrace
         THEN Done(Obj(<<>>), SkipWs(s, i + 1) + 1)
         ELSE ParseMembers(s, SkipWs(s, i + 1), <<>>)
    ELSE IF c = ChQuote THEN ParseStringBody(s, i + 1, <<>>)
    ELSE IF c = ChMinus \/ IsDigit(c) THEN ParseNumber(s, i)
    ELSE IF HasPrefix(s, i, TextNull) THEN Done(Null, i + 4)
    ELSE IF HasPrefix(s, i, TextTrue) THEN Done(Bool(TRUE), i + 4)
    ELSE IF HasPrefix(s, i, TextFalse) THEN Done(Bool(FALSE), i + 5)
    ELSE Fail

\* the members of an object from position i (a key) on, up to the closing brace
ParseMembers(s, i, acc) ==
    IF At(s, i) # ChQuote THEN Fail
    ELSE LET k == ParseStringBody(s, i + 1, <<>>) IN
         IF ~k.ok THEN Fail
         ELSE IF At(s, SkipWs(s, k.p)) # ChColon THEN Fail
         ELSE LET v == ParseValue(s, SkipWs(s, SkipWs(s, k.p) + 1)) IN
              IF ~v.ok THEN Fail
              ELSE LET ms == Append(acc, [k |-> k.v.s, v |-> v.v])
                       e == SkipWs(s, v.p)
                   IN IF At(s, e) = ChRBrace THEN Done(Obj(ms), e + 1)
                      ELSE IF At(s, e) = ChComma THEN ParseMembers(s, SkipWs(s, e + 1), ms)
                      ELSE Fail

\* JSON.parse for texts without arrays, fractions, exponents and escapes other
\* than \" \\ \/ : ok = FALSE when it throws a SyntaxError
JSONparse(text) ==
    LET r == ParseValue(text, SkipWs(text, 1)) IN
    IF r.ok /\ SkipWs(text, r.p) = Len(text) + 1
    THEN [ok |-> TRUE, v |-> r.v]
    ELSE [ok |-> FALSE, v |-> Undefined]

----------------------------------------------------------------------------
(* The token decoder *)

NoError == "null"
ErrMissingToken == "No session token in URL path"
ErrValidation == "Invalid session token: missing required fields"
ErrExpired == "Session link has expired. Please get a new viewer link from your session."
ErrDecode == "Invalid session token format"

KeySessionId == Str(<<"s", "e", "s", "s", "i", "o", "n", "I", "d">>)
KeyVpnIp == Str(<<"v", "p", "n", "I", "p">>)
KeyStreamPort == Str(<<"s", "t", "r", "e", "a", "m", "P", "o", "r", "t">>)
KeyUdpPort == Str(<<"u", "d", "p", "P", "o", "r", "t">>)
KeyExp == Str(<<"e", "x", "p">>)
KeyV == Str(<<"v">>)

TokenParseResult(tok, err, exp) == [token |-> tok, error |-> err, expired |-> exp]

\* a required-field test that forgets vpnIp
MissingRequired_NoVpnIp(parsed) ==
    \/ ~Truthy(Get(parsed, KeySessionId))
    \/ ~Truthy(Get(parsed, KeyStreamPort))

\* the required-field test of parseSessionToken
MissingRequired(parsed) ==
    \/ ~Truthy(Get(parsed, KeySessionId))
    \/ ~Truthy(Get(parsed, KeyVpnIp))
    \/ ~Truthy(Get(parsed, KeyStreamPort))

\* an expiration test that already fires in the second exp itself
IsExpired_AtExp(parsed, clock) ==
    Truthy(Get(parsed, KeyExp)) /\ GreaterThan(clock + 1, Get(parsed, KeyExp))

\* an expiration test with the comparison turned around
IsExpired_Reversed(parsed, clock) ==
    Truthy(Get(parsed, KeyExp)) /\ ~GreaterThan(clock + 1, Get(parsed, KeyExp))

\* the expiration test of parseSessionToken at clock second `clock`
IsExpired(parsed, clock) ==
    Truthy(Get(parsed, KeyExp)) /\ GreaterThan(clock, Get(parsed, KeyExp))

\* a split that keeps the signature in the payload
PayloadOf_NoSplit(fullToken) == fullToken

\* the payload part of the token: what precedes the last dot, if that dot
\* is not the first character
PayloadOf(fullToken) ==
    LET dotIndex == LastIndexOf(fullToken, ChDot)
    IN IF dotIndex > 0 THEN Slice(fullToken, 1, dotIndex) ELSE fullToken

\* parseSessionToken() with window.location.pathname = pathname and
\* Math.floor(Date.now() / 1000) = clock
parseSessionToken(pathname, clock) ==
    LET fullToken == Slice(pathname, 2, Len(pathname)) IN
    IF fullToken = <<>> THEN TokenParseResult(Null, ErrMissingToken, FALSE)
    ELSE LET decoded == base64UrlDecode(PayloadOf(fullToken)) IN
         IF ~decoded.ok THEN TokenParseResult(Null, ErrDecode, FALSE)
         ELSE LET json == JSONparse(decoded.s) IN
              IF ~json.ok \/ ~CanRead(json.v) THEN TokenParseResult(Null, ErrDecode, FALSE)
              ELSE IF MissingRequired(json.v) THEN TokenParseResult(Null, ErrValidation, FALSE)
              ELSE IF IsExpired(json.v, clock) THEN TokenParseResult(json.v, ErrExpired, TRUE)
              ELSE TokenParseResult(json.v, NoError, FALSE)

----------------------------------------------------------------------------
(* The token issuer's side of the URL format: the JSON text of the payload, *)
(* as UTF-8, in unpadded URL-safe base64, then optionally ".signature".     *)

RECURSIVE Utf8(_)
Utf8(s) ==
    IF s = <<>> THEN <<>>
    ELSE (IF Head(s) < 128 THEN <<Head(s)>>
          ELSE <<192 + (Head(s) \div 64), 128 + (Head(s) % 64)>>) \o Utf8(Tail(s))

B64UrlChar(v) ==
    IF v = 62 THEN ChMinus ELSE IF v = 63 THEN ChUnderscore ELSE B64Chars[v + 1]

\* character k of the encoding takes its 6 bits from the group of three
\* bytes it falls in; a missing byte counts as 0
base64UrlEncode(bytes) ==
    LET count == 4 * (Len(bytes) \div 3) + (IF Len(bytes) % 3 = 0 THEN 0 ELSE (Len(bytes) % 3) + 1)
        v(i) == IF i <= Len(bytes) THEN bytes[i] ELSE 0
    IN [k \in 1..count |->
          LET g == 3 * ((k - 1) \div 4) IN
          B64UrlChar(CASE (k - 1) % 4 = 0 -> v(g + 1) \div 4
                       [] (k - 1) % 4 = 1 -> (v(g + 1) % 4) * 16 + (v(g + 2) \div 16)
                       [] (k - 1) % 4 = 2 -> (v(g + 2) % 16) * 4 + (v(g + 3) \div 64)
                       [] OTHER -> v(g + 3) % 64)]

EncodePayload(obj) == base64UrlEncode(Utf8(JSONstringify(obj)))
UnsignedPath(payload) == <<ChSlash>> \o payload
SignedPath(payload, sig) == <<ChSlash>> \o payload \o <<ChDot>> \o sig

----------------------------------------------------------------------------
(* Inputs *)

MaxNow == 3
MaxExp == 2

\* the value of a payload member; Undefined stands for an absent member
SessionIdValues ==
    {Undefined, String(<<>>), String(Str(<<"s">>)), String(Str(<<"a", "\"">>)), String(<<233>>)}
VpnIpValues == {Undefined, String(<<>>), String(Str(<<"1", ".", "2">>))}
StreamPortValues == {Undefined, Num(0), Num(49100)}
ExpValues == {Undefined} \cup {Num(e) : e \in (0 - 1)..MaxExp}

SessionToken(sessionId, vpnIp, streamPort, exp) ==
    Obj(SelectSeq(<<[k |-> KeyV, v |-> Num(1)],
                    [k |-> KeySessionId, v |-> sessionId],
                    [k |-> KeyVpnIp, v |-> vpnIp],
                    [k |-> KeyStreamPort, v |-> streamPort],
                    [k |-> KeyUdpPort, v |-> Num(47998)],
                    [k |-> KeyExp, v |-> exp]>>,
                  LAMBDA m : m.v.t # "undefined"))

Payloads ==
    {SessionToken(a, b, c, d) : a \in SessionIdValues, b \in VpnIpValues,
                                c \in StreamPortValues, d \in ExpValues}

\* Undefined stands for a URL without the ".signature" part
Signatures ==
    {Undefined, String(<<>>), String(Str(<<"s", "g">>)), String(Str(<<"a", ".", "b">>))}

PathOf(obj, sig) ==
    IF sig.t = "undefined" THEN UnsignedPath(EncodePayload(obj))
    ELSE SignedPath(EncodePayload(obj), sig.s)

\* payload texts that are JSON but no object, and texts that are not JSON
OtherTexts ==
    {TextNull, Str(<<"5">>), Str(<<"\"", "x", "\"">>),
     TextTrue, Str(<<"{", "}">>), Str(<<"{", "\"", "v", "\"", ":">>),
     Str(<<"x">>)}

Paths ==
    {PathOf(obj, sig) : obj \in Payloads, sig \in Signatures}
    \cup {UnsignedPath(base64UrlEncode(t)) : t \in OtherTexts}
    \cup {SignedPath(base64UrlEncode(t), Str(<<"s", "g">>)) : t \in OtherTexts}
    \cup {Str(<<"/">>), Str(<<"/", "A">>), Str(<<"/", "!", "!">>), Str(<<"/", ".", "s", "g">>),
          Str(<<"/", "e", "3", "0", "=">>), Str(<<"/", "e", "3", "0", ".">>)}

NoResult == TokenParseResult(Undefined, "not called", FALSE)
NoConfig == [apiBaseUrl |-> <<>>, turnServer |-> <<>>, turnUsername |-> <<>>, turnPassword |-> <<>>]
NoProxy == [server |-> Undefined, port |-> Undefined, path |-> Undefined]
NoEvent == [kind |-> "none", action |-> "", status |-> ""]
\* a message of the error overlay, with the values its template embeds
ErrorMessage(text, ip, port) == [text |-> text, vpnIp |-> ip, streamPort |-> port]
NoMessage == ErrorMessage(NoError, Undefined, Undefined)
\* the state the SynthViewer constructor sets
NoState == [status |-> "loading", error |-> NoMessage, session |-> Null]

----------------------------------------------------------------------------
(* SpecDecode: parseSessionToken called, again and again, while the clock   *)
(* runs.                                                                    *)

InitDecode ==
    /\ path \in Paths
    /\ now \in 0..MaxNow
    /\ result = NoResult
    /\ resultAt = 0
    /\ prev = NoResult
    /\ prevAt = 0
    /\ config = NoConfig
    /\ token = Null
    /\ proxy = NoProxy
    /\ ice = <<>>
    /\ impl = "none"
    /\ pc = "decoder"
    /\ state = NoState
    /\ calls = <<>>
    /\ promise = "none"
    /\ lastEvent = NoEvent

\* one invocation of parseSessionToken(); the result of any one earlier
\* invocation is kept beside it
Decode ==
    /\ pc = "decoder"
    /\ result' = parseSessionToken(path, now)
    /\ resultAt' = now
    /\ \/ prev' = result /\ prevAt' = resultAt
       \/ prev # NoResult /\ UNCHANGED <<prev, prevAt>>
    /\ UNCHANGED <<path, now, config, token, proxy, ice, impl, pc, state, calls, promise, lastEvent>>

\* a second of wall-clock time passes
Tick ==
    /\ now < MaxNow
    /\ now' = now + 1
    /\ UNCHANGED <<path, result, resultAt, prev, prevAt, config, token, proxy, ice, impl, pc, state,
                   calls, promise, lastEvent>>

NextDecode == Decode \/ Tick

SpecDecode == InitDecode /\ [][NextDecode]_vars

----------------------------------------------------------------------------
(* Properties of the token decoder, checked under SpecDecode *)

Called(r) == r # NoResult

ValidPayloads == {obj \in Payloads : ~MissingRequired(obj)}
IsAscii(s) == \A i \in 1..Len(s) : s[i] < 128

\* the URL path the issuer builds for each payload, without a signature
UnsignedPathOf == [obj \in Payloads |-> UnsignedPath(EncodePayload(obj))]

C1_RoundTripAnyText ==
    \A obj \in ValidPayloads :
        (Called(result) /\ path = UnsignedPathOf[obj] /\ Get(obj, KeyExp).t = "undefined")
            => result = TokenParseResult(obj, NoError, FALSE)

C2_ExpiryForEveryExp ==
    LET exp == Get(result.token, KeyExp) IN
    (Called(result) /\ result.token.t = "object" /\ exp.t = "number")
        => IF resultAt > exp.n
           THEN result.expired /\ result.error = ErrExpired
           ELSE ~result.expired /\ result.error = NoError

\* the JSON value of the payload part of the path: ok only if the path has a
\* token whose payload base64url-decodes and whose text parses
ParsedPayload ==
    LET text == base64UrlDecode(PayloadOf(Slice(path, 2, Len(path)))) IN
    IF Len(path) > 1 /\ text.ok THEN JSONparse(text.s) ELSE [ok |-> FALSE, v |-> Undefined]

LacksRequired(v) ==
    \E k \in {KeySessionId, KeyVpnIp, KeyStreamPort} : ~Truthy(Get(v, k))

\* C3 as stated: every payload that decodes and parses, and lacks a required
\* field, yields token = null, the ValidationError and expired = false.
C3_ValidationForEveryJson ==
    Called(result) =>
        LET json == ParsedPayload IN
        (json.ok /\ LacksRequired(json.v))
            => result = TokenParseResult(Null, ErrValidation, FALSE)

\* C3 amended: the same, for every payload that parses to a JSON value other
\* than null.
C3_Validation ==
    Called(result) =>
        LET json == ParsedPayload IN
        (json.ok /\ json.v.t # "null" /\ LacksRequired(json.v))
            => result = TokenParseResult(Null, ErrValidation, FALSE)

\* a payload without vpnIp and with an exp in the past was decoded
C3_Witness ==
    /\ Called(result)
    /\ result.error = ErrValidation
    /\ LET json == ParsedPayload IN
       /\ json.ok /\ json.v.t = "object"
       /\ Get(json.v, KeyVpnIp).t = "undefined"
       /\ Truthy(Get(json.v, KeySessionId)) /\ Truthy(Get(json.v, KeyStreamPort))
       /\ Get(json.v, KeyExp).t = "number" /\ Get(json.v, KeyExp).n > 0
       /\ resultAt > Get(json.v, KeyExp).n

B64UrlAlphabet == {B64Chars[i] : i \in 1..62} \cup {ChMinus, ChUnderscore}
IsB64Url(s) == \A i \in 1..Len(s) : s[i] \in B64UrlAlphabet

\* C4 as stated: for every way of reading the path as '/P.S' with P a
\* non-empty base64url string, the result is that of decoding '/P' at the
\* same second.
C4_AnySignature ==
    \A i \in 3..Len(path) :
        (Called(result) /\ path[i] = ChDot /\ IsB64Url(Slice(path, 2, i - 1)))
            => result = parseSessionToken(Slice(path, 1, i - 1), resultAt)

\* C4 amended: the same, for a signature S without a dot.
C4_SignatureOpaque ==
    \A i \in 3..Len(path) :
        (/\ Called(result)
         /\ path[i] = ChDot
         /\ IsB64Url(Slice(path, 2, i - 1))
         /\ \A j \in (i + 1)..Len(path) : path[j] # ChDot)
            => result = parseSessionToken(Slice(path, 1, i - 1), resultAt)

\* a signed path was decoded to a token
C4_Witness ==
    /\ Called(result)
    /\ result.token.t = "object"
    /\ \E i \in 3..(Len(path) - 1) : path[i] = ChDot

\* C5 as stated: any two invocations on the same path return identical values.
C5_AlwaysIdentical ==
    (Called(prev) /\ Called(result)) => prev = result

\* C5 amended: any two invocations return the same token, and the same error
\* and expired values whenever the token has no exp or the clock second of
\* both, or of neither, exceeds exp.
C5_IdenticalUpToExpiry ==
    (Called(prev) /\ Called(result)) =>
        LET exp == Get(result.token, KeyExp) IN
        /\ prev.token = result.token
        /\ (exp.t # "number" \/ (prevAt > exp.n) = (resultAt > exp.n)) => prev = result

\* the same link was decoded in two different seconds, both before its exp ran out
C5_Witness ==
    /\ Called(prev) /\ Called(result)
    /\ prevAt < resultAt
    /\ result.token.t = "object"
    /\ Get(result.token, KeyExp).t = "number" /\ resultAt <= Get(result.token, KeyExp).n
    /\ prev = result /\ result.error = NoError

----------------------------------------------------------------------------
(* new URL(text): the parts getSignalingProxy reads.  Covers URLs of the     *)
(* form scheme://host[:port][/path...] without userinfo and IPv6 literals.  *)

ToLower(c) == IF c >= Ord("A") /\ c <= Ord("Z") THEN c + 32 ELSE c
ToLowerCase(s) == [i \in 1..Len(s) |-> ToLower(s[i])]

\* 1-based position of the first character of s at or after i that is in cs,
\* Len(s) + 1 if there is none
RECURSIVE IndexOfAny(_, _, _)
IndexOfAny(s, i, cs) ==
    IF i > Len(s) \/ s[i] \in cs THEN i ELSE IndexOfAny(s, i + 1, cs)

SpecialSchemes ==
    {Str(<<"h", "t", "t", "p">>), Str(<<"h", "t", "t", "p", "s">>), Str(<<"w", "s">>),
     Str(<<"w", "s", "s">>), Str(<<"f", "t", "p">>)}

\* ok = FALSE when the constructor throws a TypeError
URL(text) ==
    LET colon == IndexOfAny(text, 1, {ChColon})
        scheme == ToLowerCase(Slice(text, 1, colon - 1))
        slashes == At(text, colon + 1) = ChSlash /\ At(text, colon + 2) = ChSlash
        authEnd == IndexOfAny(text, colon + 3, {ChSlash, Ord("?"), Ord("#")})
        authority == Slice(text, colon + 3, authEnd - 1)
        portAt == IndexOfAny(authority, 1, {ChColon})
        host == Slice(authority, 1, portAt - 1)
    IN IF colon > Len(text) \/ colon = 1 \/ ~slashes \/ host = <<>>
       THEN [ok |-> FALSE, protocol |-> <<>>, hostname |-> <<>>]
       ELSE [ok |-> TRUE,
             protocol |-> scheme \o <<ChColon>>,
             hostname |-> IF scheme \in SpecialSchemes THEN ToLowerCase(host) ELSE host]

----------------------------------------------------------------------------
(* The connection-parameter functions *)

\* the text a template literal gives for a value
TemplateString(v) ==
    CASE v.t = "string" -> v.s
      [] v.t = "number" -> IntToString(v.n)
      [] v.t = "null" -> TextNull
      [] v.t = "boolean" -> IF v.b THEN TextTrue ELSE TextFalse
      [] OTHER -> Str(<<"u", "n", "d", "e", "f", "i", "n", "e", "d">>)

ProtocolHttps == Str(<<"h", "t", "t", "p", "s", ":">>)
StreamPathPrefix == Str(<<"/", "v", "1", "/", "s", "t", "r", "e", "a", "m", "/">>)

\* a port choice that gives 80 to http alone
getSignalingProxy_HttpOnly(cfg, session) ==
    LET url == URL(cfg.apiBaseUrl) IN
    [server |-> String(url.hostname),
     port |-> Num(IF url.protocol = Str(<<"h", "t", "t", "p", ":">>) THEN 80 ELSE 443),
     path |-> String(StreamPathPrefix \o TemplateString(Get(session, KeyVpnIp)))]

\* getSignalingProxy(config, session), for an apiBaseUrl that new URL accepts
getSignalingProxy(cfg, session) ==
    LET url == URL(cfg.apiBaseUrl) IN
    [server |-> String(url.hostname),
     port |-> Num(IF url.protocol = ProtocolHttps THEN 443 ELSE 80),
     path |-> String(StreamPathPrefix \o TemplateString(Get(session, KeyVpnIp)))]

StunUrl ==
    Str(<<"s", "t", "u", "n", ":", "s", "t", "u", "n", ".", "l", ".", "g", "o", "o", "g",
          "l", "e", ".", "c", "o", "m", ":", "1", "9", "3", "0", "2">>)

\* an RTCIceServer; a member the code does not set is Undefined
RTCIceServer(urls, username, credential) ==
    [urls |-> urls, username |-> username, credential |-> credential]

\* a TURN entry added when a TURN server is configured, whatever the password
getIceServers_TurnIfServer(cfg) ==
    <<RTCIceServer(String(StunUrl), Undefined, Undefined)>>
    \o (IF cfg.turnServer # <<>>
        THEN <<RTCIceServer(String(cfg.turnServer), String(cfg.turnUsername),
                            String(cfg.turnPassword))>>
        ELSE <<>>)

\* getIceServers(config)
getIceServers(cfg) ==
    <<RTCIceServer(String(StunUrl), Undefined, Undefined)>>
    \o (IF cfg.turnPassword # <<>>
        THEN <<RTCIceServer(String(cfg.turnServer), String(cfg.turnUsername),
                            String(cfg.turnPassword))>>
        ELSE <<>>)

----------------------------------------------------------------------------
(* SpecConfig: the two functions applied to every configuration and token   *)

\* the parts an apiBaseUrl is written from; an empty port or path is left out
UrlSchemes ==
    {Str(<<"h", "t", "t", "p", "s">>), Str(<<"h", "t", "t", "p">>),
     Str(<<"H", "T", "T", "P", "S">>), Str(<<"w", "s", "s">>)}
UrlHosts ==
    {Str(<<"a", "p", "i", ".", "e", "x", "a", "m", "p", "l", "e", ".", "c", "o", "m">>),
     Str(<<"A", ".", "b">>)}
UrlPorts == {<<>>, Str(<<"8", "0">>), Str(<<"4", "4", "3">>), Str(<<"8", "4", "4", "3">>)}
UrlPaths == {<<>>, Str(<<"/">>), Str(<<"/", "v", "2">>)}
UrlParts == [scheme : UrlSchemes, host : UrlHosts, port : UrlPorts, path : UrlPaths]

UrlText(u) ==
    u.scheme \o <<ChColon, ChSlash, ChSlash>> \o u.host
    \o (IF u.port # <<>> THEN <<ChColon>> \o u.port ELSE <<>>) \o u.path

TurnServers == {<<>>, Str(<<"t", "u", "r", "n", ":", "1", ".", "2", ":", "3">>)}
TurnUsernames == {<<>>, Str(<<"i", "s", "a", "a", "c">>)}
TurnPasswords == {<<>>, Str(<<"p", "w">>)}

SynthConfig(apiBaseUrl, turnServer, turnUsername, turnPassword) ==
    [apiBaseUrl |-> apiBaseUrl, turnServer |-> turnServer,
     turnUsername |-> turnUsername, turnPassword |-> turnPassword]

Configs ==
    {SynthConfig(UrlText(u), s, n, w) :
        u \in UrlParts, s \in TurnServers, n \in TurnUsernames, w \in TurnPasswords}

VpnIp10 == String(Str(<<"1", "0", ".", "8", ".", "0", ".", "1", "0">>))
Tokens ==
    {SessionToken(String(Str(<<"s">>)), VpnIp10, Num(49100), Undefined),
     SessionToken(String(Str(<<"t">>)), String(Str(<<"1", ".", "2">>)), Num(1), Num(2))}

InitConfig ==
    /\ config \in Configs
    /\ token \in Tokens
    /\ proxy = NoProxy
    /\ ice = <<>>
    /\ pc = "resolver"
    /\ path = <<>>
    /\ now = 0
    /\ result = NoResult
    /\ resultAt = 0
    /\ prev = NoResult
    /\ prevAt = 0
    /\ impl = "none"
    /\ state = NoState
    /\ calls = <<>>
    /\ promise = "none"
    /\ lastEvent = NoEvent

\* one call of getSignalingProxy(config, token)
ResolveProxy ==
    /\ pc = "resolver"
    /\ proxy' = getSignalingProxy(config, token)
    /\ UNCHANGED <<path, now, result, resultAt, prev, prevAt, config, token, ice, impl, pc,
                   state, calls, promise, lastEvent>>

\* one call of getIceServers(config)
ResolveIce ==
    /\ pc = "resolver"
    /\ ice' = getIceServers(config)
    /\ UNCHANGED <<path, now, result, resultAt, prev, prevAt, config, token, proxy, impl, pc,
                   state, calls, promise, lastEvent>>

NextConfig == ResolveProxy \/ ResolveIce

SpecConfig == InitConfig /\ [][NextConfig]_vars

\* C6: the list getIceServers returns starts with the public STUN descriptor;
\* it has the TURN descriptor of the configuration as second and last entry
\* exactly when turnPassword is non-empty, and one entry otherwise.
C6_IceServers ==
    ice # <<>> =>
        /\ ice[1] = RTCIceServer(String(StunUrl), Undefined, Undefined)
        /\ IF config.turnPassword # <<>>
           THEN /\ Len(ice) = 2
                /\ ice[2].urls = String(config.turnServer)
                /\ ice[2].username = String(config.turnUsername)
                /\ ice[2].credential = String(config.turnPassword)
           ELSE Len(ice) = 1

\* the list was computed for a configuration with a TURN server and user name
\* but an empty password, and for one with only a password
C6_Witness ==
    /\ ice # <<>>
    /\ \/ config.turnPassword = <<>> /\ config.turnServer # <<>> /\ config.turnUsername # <<>>
          /\ Len(ice) = 1
       \/ config.turnPassword # <<>> /\ config.turnServer = <<>> /\ Len(ice) = 2

\* C7: server is the host the apiBaseUrl was written with (in lower case),
\* port is 443 for the https scheme and 80 for any other, whatever port the
\* URL names, and path is /v1/stream/ followed by token.vpnIp.
C7_SignalingProxy ==
    \A u \in UrlParts :
        (proxy # NoProxy /\ config.apiBaseUrl = UrlText(u)) =>
            /\ proxy.server = String(ToLowerCase(u.host))
            /\ proxy.port = Num(IF ToLowerCase(u.scheme) = Str(<<"h", "t", "t", "p", "s">>)
                                THEN 443 ELSE 80)
            /\ proxy.path = String(StreamPathPrefix \o Get(token, KeyVpnIp).s)

\* the example of the specification was computed
C7_Witness ==
    /\ proxy # NoProxy
    /\ config.apiBaseUrl =
         Str(<<"h", "t", "t", "p", "s", ":", "/", "/", "a", "p", "i", ".", "e", "x", "a",
               "m", "p", "l", "e", ".", "c", "o", "m">>)
    /\ token = SessionToken(String(Str(<<"s">>)), VpnIp10, Num(49100), Undefined)
    /\ proxy.server = String(Str(<<"a", "p", "i", ".", "e", "x", "a", "m", "p", "l", "e", ".",
                                   "c", "o", "m">>))
    /\ proxy.port = Num(443)
    /\ proxy.path = String(Str(<<"/", "v", "1", "/", "s", "t", "r", "e", "a", "m", "/",
                                       "1", "0", ".", "8", ".", "0", ".", "1", "0">>))

----------------------------------------------------------------------------
(* The SynthViewer component.  impl = "proxy" is src/synth/SynthViewer.tsx, *)
(* which routes signaling through the proxy; impl = "direct" is the other   *)
(* source of the component, which signals to the VPN address itself.        *)

DefaultApiBaseUrl ==
    Str(<<"h", "t", "t", "p", "s", ":", "/", "/", "a", "p", "i", ".", "c", "y", "b", "e", "r",
          "n", "e", "t", "i", "c", "p", "h", "y", "s", "i", "c", "s", ".", "c", "o", "m">>)
DefaultTurnServer ==
    Str(<<"t", "u", "r", "n", ":", "1", "5", "7", ".", "2", "4", "5", ".", "2", "5", "2", ".",
          "1", "8", "0", ":", "3", "4", "7", "8">>)
DefaultTurnUsername == Str(<<"i", "s", "a", "a", "c">>)
\* stands for the password literal of the source
DefaultTurnPassword == Str(<<"d", "e", "f", "a", "u", "l", "t">>)

\* a || b for strings
OrElse(a, b) == IF a # <<>> THEN a ELSE b

\* defaultConfig, for the build environment env (an unset variable is empty)
defaultConfig(env) ==
    SynthConfig(OrElse(env.VITE_API_BASE_URL, DefaultApiBaseUrl),
                OrElse(env.VITE_TURN_SERVER, DefaultTurnServer),
                OrElse(env.VITE_TURN_USERNAME, DefaultTurnUsername),
                OrElse(env.VITE_TURN_PASSWORD, DefaultTurnPassword))

Environments ==
    [VITE_API_BASE_URL : {<<>>, Str(<<"h", "t", "t", "p", ":", "/", "/", "A", ".", "b", ":",
                                      "8", "4", "4", "3">>), Str(<<"a", "p", "i">>)},
     VITE_TURN_SERVER : {<<>>},
     VITE_TURN_USERNAME : {<<>>},
     VITE_TURN_PASSWORD : {<<>>}]

Implementations == {"proxy", "direct"}

\* the URL paths the page is opened with
ViewerPayloads ==
    {SessionToken(a, b, c, d) :
        a \in {Undefined, String(Str(<<"s">>))},
        b \in {String(<<>>), String(Str(<<"1", ".", "2">>))},
        c \in {String(<<>>), Num(49100)},
        d \in ExpValues}

ViewerPaths ==
    {PathOf(obj, sig) : obj \in ViewerPayloads, sig \in {Undefined, String(Str(<<"s", "g">>))}}
    \cup {UnsignedPath(base64UrlEncode(t)) : t \in {TextNull, Str(<<"x">>)}}
    \cup {Str(<<"/">>), Str(<<"/", "A">>)}

MsgInvalidLink ==
    "Invalid or missing session token in URL. Please use the viewer link from your session details."
MsgConnectionFailed ==
    "Connection failed. Make sure your session is running and you have network access to the VPN."
MsgStreamError == "Stream error: "
MsgUnknownError == "Unknown error"
MsgStopped == "Stream stopped. The session may have ended."
MsgTerminated == "Stream terminated. Please refresh to reconnect."

\* a test that looks at the token alone
DecodeFailed_TokenOnly(res) == ~Truthy(res.token)

\* the test componentDidMount makes on the result: result.error || !result.token
DecodeFailed(res) == res.error # NoError \/ ~Truthy(res.token)

\* a media port taken from the signaling port of the token
MediaPort_StreamPort(session) == Get(session, KeyStreamPort)

\* mediaPort of the streamConfig
MediaPort(session) == Get(session, KeyUdpPort)

\* the streamConfig connectToStream builds for AppStreamer.connect
StreamConfig(variant, cfg, session) ==
    LET signalingProxy == getSignalingProxy(cfg, session) IN
    [videoElementId |-> "synth-video",
     audioElementId |-> "synth-audio",
     authenticate |-> FALSE,
     maxReconnects |-> 5,
     signalingServer |-> IF variant = "proxy" THEN signalingProxy.server
                         ELSE Get(session, KeyVpnIp),
     signalingPort |-> IF variant = "proxy" THEN signalingProxy.port
                       ELSE Get(session, KeyStreamPort),
     signalingPath |-> IF variant = "proxy" THEN signalingProxy.path ELSE Undefined,
     mediaServer |-> Get(session, KeyVpnIp),
     mediaPort |-> MediaPort(session),
     nativeTouchEvents |-> TRUE,
     width |-> 1920,
     height |-> 1080,
     fps |-> 60,
     iceServers |-> getIceServers(cfg)]

Init ==
    /\ path \in ViewerPaths
    /\ now \in 0..MaxNow
    /\ config \in {defaultConfig(env) : env \in Environments}
    /\ impl \in Implementations
    /\ pc = "constructed"
    /\ state = NoState
    /\ calls = <<>>
    /\ promise = "none"
    /\ lastEvent = NoEvent
    /\ result = NoResult
    /\ resultAt = 0
    /\ prev = NoResult
    /\ prevAt = 0
    /\ token = Null
    /\ proxy = NoProxy
    /\ ice = <<>>

componentDidMount ==
    /\ pc = "constructed"
    /\ LET res == parseSessionToken(path, now) IN
       /\ result' = res
       /\ resultAt' = now
       /\ IF DecodeFailed(res)
          THEN /\ state' = [state EXCEPT
                              !.status = "error",
                              !.error = ErrorMessage(IF res.error # NoError THEN res.error
                                                     ELSE MsgInvalidLink,
                                                     Undefined, Undefined)]
               /\ pc' = "mounted"
          ELSE /\ state' = [state EXCEPT !.session = res.token, !.status = "connecting"]
               /\ pc' = "connectToStream"
    /\ UNCHANGED <<path, now, prev, prevAt, config, token, proxy, ice, impl, calls, promise,
                   lastEvent>>

\* connectToStream(result.token) up to its await: in the proxy variant
\* getSignalingProxy runs first, outside the try, and a throwing new URL ends
\* the method before connect is reached
connectToStream ==
    /\ pc = "connectToStream"
    /\ pc' = "mounted"
    /\ IF impl = "proxy" /\ ~URL(config.apiBaseUrl).ok
       THEN UNCHANGED <<calls, promise>>
       ELSE /\ calls' = Append(calls, StreamConfig(impl, config, result.token))
            /\ promise' = "pending"
    /\ UNCHANGED <<path, now, result, resultAt, prev, prevAt, config, token, proxy, ice, impl,
                   state, lastEvent>>

\* the promise of AppStreamer.connect is fulfilled: the await returns
connectFulfilled ==
    /\ promise = "pending"
    /\ promise' = "fulfilled"
    /\ lastEvent' = [kind |-> "fulfilled", action |-> "", status |-> ""]
    /\ UNCHANGED <<path, now, result, resultAt, prev, prevAt, config, token, proxy, ice, impl,
                   pc, state, calls>>

\* the promise is rejected: the catch block of connectToStream
connectRejected ==
    /\ promise = "pending"
    /\ promise' = "rejected"
    /\ state' = [state EXCEPT
                   !.status = "error",
                   !.error = ErrorMessage(MsgConnectionFailed, Get(result.token, KeyVpnIp),
                                          Get(result.token, KeyStreamPort))]
    /\ lastEvent' = [kind |-> "rejected", action |-> "", status |-> ""]
    /\ UNCHANGED <<path, now, result, resultAt, prev, prevAt, config, token, proxy, ice, impl,
                   pc, calls>>

\* the StreamEvent messages of the streaming client
StreamActions == {"start", "stop"}
StreamStatuses == {"success", "error"}
StreamInfos == {"", "boom"}
StreamEvents == [action : StreamActions, status : StreamStatuses, info : StreamInfos]
\* the message given to the callbacks that do not read it
StreamEventUnread == [action |-> "stop", status |-> "success", info |-> ""]

handleStart(message) ==
    IF message.action = "start" /\ message.status = "success"
    THEN state' = [state EXCEPT !.status = "connected"]
    ELSE IF message.status = "error"
    THEN state' = [state EXCEPT
                     !.status = "error",
                     !.error = ErrorMessage(MsgStreamError \o (IF message.info # ""
                                                               THEN message.info
                                                               ELSE MsgUnknownError),
                                            Undefined, Undefined)]
    ELSE UNCHANGED state

handleUpdate(message) == UNCHANGED state

\* a stop handler that shows the connecting overlay again
handleStop_Reconnecting(message) ==
    state' = [state EXCEPT !.status = "connecting",
                           !.error = ErrorMessage(MsgStopped, Undefined, Undefined)]

handleStop(message) ==
    state' = [state EXCEPT !.status = "error",
                           !.error = ErrorMessage(MsgStopped, Undefined, Undefined)]

handleTerminate(message) ==
    state' = [state EXCEPT !.status = "error",
                           !.error = ErrorMessage(MsgTerminated, Undefined, Undefined)]

\* what a callback of the streaming client leaves as it was
Delivered(kind, message) ==
    /\ lastEvent' = [kind |-> kind, action |-> message.action, status |-> message.status]
    /\ UNCHANGED <<path, now, result, resultAt, prev, prevAt, config, token, proxy, ice, impl,
                   pc, calls, promise>>

\* the streaming client calls the callbacks it was given in streamConfig, at
\* any time after connect was called and in any order
onStart ==
    /\ calls # <<>>
    /\ \E message \in StreamEvents : handleStart(message) /\ Delivered("onStart", message)

onUpdate ==
    /\ calls # <<>>
    /\ handleUpdate(StreamEventUnread)
    /\ Delivered("onUpdate", StreamEventUnread)

onStop ==
    /\ calls # <<>>
    /\ handleStop(StreamEventUnread)
    /\ Delivered("onStop", StreamEventUnread)

onTerminate ==
    /\ calls # <<>>
    /\ handleTerminate(StreamEventUnread)
    /\ Delivered("onTerminate", StreamEventUnread)

Next ==
    \/ componentDidMount
    \/ connectToStream
    \/ connectFulfilled
    \/ connectRejected
    \/ onStart
    \/ onUpdate
    \/ onStop
    \/ onTerminate

Spec == Init /\ [][Next]_vars

----------------------------------------------------------------------------
(* Properties of the viewer, checked under Spec *)

DecodingErrors == {ErrMissingToken, ErrDecode, ErrValidation, ErrExpired}

\* C8: once the decoder has reported an error, status is 'error' and connect
\* has not been called, for the rest of the page load; connect is called only
\* after a decoding that returned a token and no error, and while status is
\* 'connecting'.
C8_DecodeErrorsTerminal ==
    /\ [](Called(result) =>
            /\ result.error \in DecodingErrors => (state.status = "error" /\ calls = <<>>)
            /\ calls # <<>> => (result.token.t = "object" /\ result.error = NoError))
    /\ [][calls' # calls =>
            (Called(result) /\ result.error = NoError /\ state.status = "connecting")]_vars

\* the page was opened with an expired link
C8_Witness ==
    /\ pc = "mounted"
    /\ result.error = ErrExpired /\ result.token.t = "object"
    /\ state.status = "error" /\ state.error.text = ErrExpired
    /\ calls = <<>>

\* C9 as stated: once status is 'error', no step makes it 'connecting' or
\* 'connected'.
C9_ErrorAbsorbing ==
    [][state.status = "error" => state'.status \notin {"connecting", "connected"}]_vars

StartSucceeded == [kind |-> "onStart", action |-> "start", status |-> "success"]

\* C9 amended: once status is 'error', no step makes it 'connecting', and the
\* only step that makes it 'connected' is an onStart callback whose message
\* has action 'start' and status 'success'.
C9_ErrorLeftOnlyByStart ==
    [][state.status = "error" =>
          /\ state'.status # "connecting"
          /\ state'.status = "connected" => lastEvent' = StartSucceeded]_vars

\* connect was rejected, and a later onStart callback left the error in place
C9_Witness ==
    /\ promise = "rejected"
    /\ state.status = "error" /\ state.error.text = MsgConnectionFailed
    /\ lastEvent.kind = "onStart"

\* C10 as stated: in both variants every streamConfig given to connect has
\* the signaling server, port and path of getSignalingProxy, the list of
\* getIceServers, and the token's vpnIp and udpPort as media server and port.
C10_ProxyInEveryVariant ==
    \A i \in 1..Len(calls) :
        LET signalingProxy == getSignalingProxy(config, result.token) IN
        /\ calls[i].signalingServer = signalingProxy.server
        /\ calls[i].signalingPort = signalingProxy.port
        /\ calls[i].signalingPath = signalingProxy.path
        /\ calls[i].iceServers = getIceServers(config)
        /\ calls[i].mediaServer = Get(result.token, KeyVpnIp)
        /\ calls[i].mediaPort = Get(result.token, KeyUdpPort)

\* C10 amended: that holds in the proxy variant; in the direct variant the
\* signaling server and port are the token's vpnIp and streamPort and there is
\* no signaling path, while iceServers, mediaServer and mediaPort are as stated.
C10_StreamConfig ==
    \A i \in 1..Len(calls) :
        LET signalingProxy == getSignalingProxy(config, result.token) IN
        /\ IF impl = "proxy"
           THEN /\ calls[i].signalingServer = signalingProxy.server
                /\ calls[i].signalingPort = signalingProxy.port
                /\ calls[i].signalingPath = signalingProxy.path
           ELSE /\ calls[i].signalingServer = Get(result.token, KeyVpnIp)
                /\ calls[i].signalingPort = Get(result.token, KeyStreamPort)
                /\ calls[i].signalingPath = Undefined
        /\ calls[i].iceServers = getIceServers(config)
        /\ calls[i].mediaServer = Get(result.token, KeyVpnIp)
        /\ calls[i].mediaPort = Get(result.token, KeyUdpPort)

\* the proxy variant called connect with the host of a configured http URL
C10_Witness ==
    /\ impl = "proxy"
    /\ Len(calls) = 1
    /\ calls[1].signalingServer = String(Str(<<"a", ".", "b">>))
    /\ calls[1].signalingPort = Num(80)
    /\ Len(calls[1].iceServers) = 2

----------------------------------------------------------------------------
(* The shape of the decoder's result, checked under SpecDecode *)

\* C11: for every URL path the decoder returns a result of one of three
\* shapes: no token with the MissingToken, DecodeError or ValidationError and
\* expired = false; a structurally valid token with the Expired error and
\* expired = true; or a structurally valid token with no error and
\* expired = false.  What throws inside the try (atob, JSON.parse, the read
\* of a property of null) ends in the first shape, and the empty path yields
\* MissingToken.
C11_ResultShapes ==
    Called(result) =>
        /\ \/ /\ result.token = Null
              /\ result.error \in {ErrMissingToken, ErrDecode, ErrValidation}
              /\ ~result.expired
           \/ /\ result.token.t = "object" /\ ~LacksRequired(result.token)
              /\ result.error = ErrExpired
              /\ result.expired
           \/ /\ result.token.t = "object" /\ ~LacksRequired(result.token)
              /\ result.error = NoError
              /\ ~result.expired
        /\ Len(path) <= 1 => result = TokenParseResult(Null, ErrMissingToken, FALSE)

\* the payload text `null` was decoded: JSON.parse accepts it, and the read of
\* its sessionId throws into the catch block
C11_Witness ==
    /\ Called(result)
    /\ path = UnsignedPath(base64UrlEncode(TextNull))
    /\ result = TokenParseResult(Null, ErrDecode, FALSE)

====
